---- MODULE Spec2Model ----
(***************************************************************************)
(* Model of the tempo audio player (package player): the Player state, the *)
(* bubbletea Update handler and the operations it dispatches to, the beep  *)
(* speaker that streams the decoded file, the goroutine that waits for the *)
(* end of the stream, and the tick timer.                                  *)
(*                                                                         *)
(* Time values.  p.duration is a time.Duration that LoadAudio rounds to a  *)
(* whole number of seconds; the variable duration holds that number of     *)
(* seconds, and DurationNs-style comparisons are made through GeDuration   *)
(* and MinDuration, which compare against duration * Second without        *)
(* computing a product that does not fit TLC's integers.  p.elapsed is a   *)
(* time.Duration that the program only ever changes by ++ and by +-5 and   *)
(* renders as time.Second * p.elapsed: the variable elapsed holds its raw  *)
(* value.  p.lastSeekTime is held as time.Since(p.lastSeekTime) in         *)
(* milliseconds, saturated at SeekCooldown (sinceSeek).                    *)
(***************************************************************************)
EXTENDS Integers, Sequences, FiniteSets, TLC

\* ---------------------------------------------------------------- constants
\* time.Second in nanoseconds, the unit of time.Duration
Second == 1000000000
\* SeekCooldown, in milliseconds
SeekCooldown == 200
\* the volume step of IncrementVolume / DecrementVolume
VolumeStep == 5
\* the upper end of the human-readable volume scale
VolumeMax == 100
\* the seconds skipped by Rewind / Forward
SkipSeconds == 5
\* the default of the -vol flag
DefaultVolume == 50
\* the volume Reset stores before Restart puts the saved one back
ResetVolume == 50

\* ------------------------------------------------------------------- bounds
\* samples per second of the decoded file (format.SampleRate)
SampleRate == 2
\* elapsed is followed up to this many seconds past the duration
MaxOvershoot == 3
\* volume.Volume is kept within -MaxGain .. MaxGain steps of VolumeShift
MaxGain == 5
\* the clock advances in steps of this many milliseconds
ClockStep == 100
\* messages that reach Update after tea.Quit was returned: the senders that
\* were already waiting on the runtime's channel
MaxAfterQuit == 1

Min(a, b) == IF a <= b THEN a ELSE b
Max(a, b) == IF a >= b THEN a ELSE b

\* ------------------------------------------------------------------ inputs
\* lengths, in samples, of the decoded streams: an empty file, a file of one
\* second and one sample, and the ten-second file of the scenario
ShortLen == SampleRate + 1
StreamLens == {0, ShortLen, 10 * SampleRate}

\* the -vol flag values handed to New
InitVolumes == {-5, 3, 25, 98, 120}

\* the files handed to SetAudioFile: ext is AudioFile.ext, opens says whether
\* os.Open succeeds, decodes whether mp3.Decode / wav.Decode succeeds, len is
\* the length of the decoded stream
GoodFiles == [ext : {".mp3"}, opens : {TRUE}, decodes : {TRUE}, len : StreamLens \ {0}]
    \cup [ext : {".wav"}, opens : {TRUE}, decodes : {TRUE}, len : {0}]
BadFiles == [ext : {"", ".ogg"}, opens : {TRUE}, decodes : {TRUE}, len : {0}]
    \cup [ext : {".mp3"}, opens : {FALSE}, decodes : {TRUE}, len : {0}]
    \cup [ext : {".wav"}, opens : {TRUE}, decodes : {FALSE}, len : {0}]
AudioFiles == GoodFiles \cup BadFiles

NoAudio == [ext |-> "nil", opens |-> FALSE, decodes |-> FALSE, len |-> 0]

\* the key strings of Update's switch
QuitKeys == {"ctrl+c", "q", "Q"}
PlayKeys == {"enter", " "}
UpKeys == {"+", "up", "k"}
DownKeys == {"-", "down", "j"}
LeftKeys == {"left", "h"}
RightKeys == {"right", "l"}
MuteKeys == {"m", "M"}
OtherKeys == {"x"}
AllKeys == QuitKeys \cup PlayKeys \cup UpKeys \cup DownKeys \cup LeftKeys
    \cup RightKeys \cup MuteKeys \cup OtherKeys

\* a session is what the user brings to one run of the program: the flags
\* and the keys pressed.  Volume keys and seek keys act on disjoint fields, so
\* the runs are explored per kind of session.
SeekSessions == [keys : {AllKeys \ (UpKeys \cup DownKeys \cup MuteKeys)},
                 vol : {DefaultVolume}, audio : AudioFiles]
VolumeSessions == [keys : {AllKeys \ (LeftKeys \cup RightKeys)}, vol : InitVolumes,
                   audio : {f \in AudioFiles : f.len = 0}]
Sessions == SeekSessions \cup VolumeSessions

\* ------------------------------------------------------------------- state
VARIABLES
    hasInit,        \* p.hasInit
    running,        \* p.running
    completed,      \* p.completed
    quitting,       \* p.quitting
    totalVolume,    \* p.totalVolume
    currentAudio,   \* p.currentAudio (NoAudio for nil)
    duration,       \* p.duration, in whole seconds
    elapsed,        \* p.elapsed, raw value
    err,            \* p.err ("nil" or the kind of error)
    sinceSeek,      \* time.Since(p.lastSeekTime), ms, saturated at SeekCooldown
    stream,         \* p.stream: "nil", "open" or "closed"
    pos,            \* p.stream.Position()
    ctrlPaused,     \* p.ctrl.Paused
    gain,           \* p.volume.Volume, in steps of VolumeShift
    silent,         \* p.volume.Silent
    seqs,           \* the sequences speaker.Play put in the mixer, still streaming
    watchers,       \* goroutines of Play blocked in <-done
    signalled,      \* goroutines of Play past <-done, before p.completed = true
    ticks,          \* tea.Tick timers handed to the runtime and not yet delivered
    closes,         \* calls of p.stream.Close()
    program,        \* "new", "running", or "quit pending" once tea.Quit is returned
    keys,           \* the keys of this session
    afterQuit,      \* messages delivered since tea.Quit was returned
    last            \* the latest operation of the player and how it ended

vars == <<hasInit, running, completed, quitting, totalVolume, currentAudio,
          duration, elapsed, err, sinceSeek, stream, pos, ctrlPaused, gain,
          silent, seqs, watchers, signalled, ticks, closes, program, keys,
          afterQuit, last>>

\* New: the volume is clamped into 0 .. 100
New(volume) == IF volume > VolumeMax THEN VolumeMax ELSE IF volume < 0 THEN 0 ELSE volume

\* format.SampleRate.D(n).Round(time.Second), in seconds: n samples last
\* n / SampleRate seconds, rounded to the nearest second, halves up
RoundSeconds(n) == (2 * n + SampleRate) \div (2 * SampleRate)

\* a >= d seconds, a a raw Duration and d a whole number of seconds
GeDuration(a, d) == (a \div Second) >= d

\* min(a, d seconds) as a raw Duration
MinDuration(a, d) == IF GeDuration(a, d) THEN d * Second ELSE a

Init ==
    \E s \in Sessions :
        /\ totalVolume = New(s.vol)
        /\ currentAudio = s.audio
        /\ keys = s.keys
        /\ hasInit = FALSE /\ running = FALSE /\ completed = FALSE
        /\ quitting = FALSE
        /\ duration = 0 /\ elapsed = 0
        /\ err = "nil"
        /\ sinceSeek = SeekCooldown
        /\ stream = "nil" /\ pos = 0
        /\ ctrlPaused = FALSE /\ gain = 0 /\ silent = FALSE
        /\ seqs = 0 /\ watchers = 0 /\ signalled = 0 /\ ticks = 0 /\ closes = 0
        /\ program = "new"
        /\ afterQuit = 0
        /\ last = <<"New", "done">>

\* ------------------------------------------------------------ Close / Quit
\* p.stream.Close(): a decoder closes its file once; closing it again returns
\* the file's "already closed" error
StreamClose(st) == IF st = "closed" THEN "close" ELSE "nil"

\* Close: running = false; the stream, when there is one, is closed, and an
\* error of Close is stored in p.err
Close ==
    /\ running' = FALSE
    /\ IF stream # "nil"
       THEN /\ closes' = closes + 1
            /\ stream' = "closed"
            /\ err' = IF StreamClose(stream) # "nil" THEN StreamClose(stream) ELSE err
       ELSE UNCHANGED <<closes, stream, err>>

\* Quit: quitting = true, Close(), and tea.Quit is returned to the runtime
Quit ==
    /\ quitting' = TRUE
    /\ Close
    /\ program' = "quit pending"

\* ------------------------------------------------------------- LoadAudio
\* LoadError without the default case of the switch on the extension
LoadErrorAnyExt(f) ==
    IF f.ext = "" THEN "ext"
    ELSE IF ~f.opens THEN "open"
    ELSE IF ~f.decodes THEN "decode"
    ELSE "nil"

\* the error LoadAudio stores for file f, "nil" when it loads
LoadError(f) ==
    IF f.ext = "" THEN "ext"
    ELSE IF ~f.opens THEN "open"
    ELSE IF f.ext \notin {".mp3", ".wav"} THEN "ext"
    ELSE IF ~f.decodes THEN "decode"
    ELSE "nil"

\* volume.Silent as LoadAudio leaves it
LoadSilent(v) == v = 0

\* Init: LoadAudio, then Quit on an error, else the speaker is initialised
PlayerInit ==
    /\ program = "new"
    /\ currentAudio # NoAudio
    /\ UNCHANGED afterQuit
    /\ last' = <<"Init", "done">>
    /\ IF LoadError(currentAudio) # "nil"
       THEN /\ quitting' = TRUE
            /\ running' = FALSE
            /\ err' = LoadError(currentAudio)
            /\ program' = "quit pending"
            /\ UNCHANGED <<stream, pos, duration, ctrlPaused, gain, silent, closes>>
       ELSE /\ stream' = "open"
            /\ pos' = 0
            /\ duration' = RoundSeconds(currentAudio.len)
            /\ ctrlPaused' = FALSE
            /\ gain' = 0
            /\ silent' = LoadSilent(totalVolume)
            /\ program' = "running"
            /\ UNCHANGED <<quitting, running, err, closes>>
    /\ UNCHANGED <<hasInit, completed, totalVolume, currentAudio, elapsed, sinceSeek,
                   seqs, watchers, signalled, ticks, keys>>

\* ----------------------------------------------------------------- Update
\* the messages the runtime delivers: a due tick, a key, or another message
Msgs == {"TickMsg", "WindowSizeMsg"} \cup AllKeys

\* the runtime delivers msg to Update
Delivered(msg) ==
    /\ \/ program = "running"
       \/ program = "quit pending" /\ afterQuit < MaxAfterQuit
    /\ msg = "TickMsg" => ticks > 0
    /\ msg \in AllKeys => msg \in keys
    /\ afterQuit' = IF program = "quit pending" THEN afterQuit + 1 ELSE afterQuit

\* the timers left once msg is taken
TicksAfter(msg) == IF msg = "TickMsg" THEN ticks - 1 ELSE ticks

\* Switch without the test of p.err
SwitchIgnoringError == ~(~hasInit /\ currentAudio # NoAudio)

\* Update reaches its switch: no error, and no autoplay pending
Switch == err = "nil" /\ ~(~hasInit /\ currentAudio # NoAudio)

\* if p.err != nil { return p, p.Quit() }, on the message msg
UpdateErrorOn(msg) ==
    /\ Delivered(msg)
    /\ err # "nil"
    /\ Quit
    /\ ticks' = TicksAfter(msg)
    /\ last' = <<"Quit", "done">>
    /\ UNCHANGED <<hasInit, completed, totalVolume, currentAudio, duration,
                   elapsed, sinceSeek, pos, ctrlPaused, gain, silent, seqs,
                   watchers, signalled, keys>>

\* Update with an error set, on any message
UpdateError == \E msg \in Msgs : UpdateErrorOn(msg)

\* Play without the test of p.hasInit
PlayWithoutInitTest(h, r) ==
    IF r THEN [hasInit |-> TRUE, running |-> r, started |-> 0, tick |-> 0]
    ELSE [hasInit |-> TRUE, running |-> TRUE, started |-> 1, tick |-> 1]

\* Play: what it does from hasInit = h and running = r: the new flags, whether
\* a sequence and its watcher were started, and whether a tick is returned
Play(h, r) ==
    IF h THEN [hasInit |-> h, running |-> r, started |-> 0, tick |-> 0]
    ELSE IF r THEN [hasInit |-> TRUE, running |-> r, started |-> 0, tick |-> 0]
    ELSE [hasInit |-> TRUE, running |-> TRUE, started |-> 1, tick |-> 1]

\* if !p.hasInit && p.currentAudio != nil { return p, p.Play() }, on the
\* message msg
UpdatePlayOn(msg) ==
    /\ Delivered(msg)
    /\ err = "nil"
    /\ ~hasInit /\ currentAudio # NoAudio
    /\ LET r == Play(hasInit, running) IN
        /\ hasInit' = r.hasInit
        /\ running' = r.running
        /\ seqs' = seqs + r.started
        /\ watchers' = watchers + r.started
        /\ ticks' = TicksAfter(msg) + r.tick
    /\ last' = <<"Play", "done">>
    /\ UNCHANGED <<completed, quitting, totalVolume, currentAudio, duration,
                   elapsed, err, sinceSeek, stream, pos, ctrlPaused, gain,
                   silent, signalled, closes, program, keys>>

\* Update before the first Play, on any message
UpdatePlay == \E msg \in Msgs : UpdatePlayOn(msg)

\* TickElapsed without the test of running and completed
TickElapsedAlways(e, run, comp) == e + 1

\* case TickMsg: elapsed as the handler leaves it
TickElapsed(e, run, comp) == IF ~comp /\ run THEN e + 1 ELSE e

\* TickArmed that returns a timer only while the audio plays
TickArmedWhilePlaying(run, comp) == IF run /\ ~comp THEN 1 ELSE 0

\* case TickMsg: the timers of the command it returns, p.tick(), whatever
\* running and completed are
TickArmed(run, comp) == 1

\* case TickMsg: count a second when playing, and arm the next tick
UpdateTick ==
    /\ Delivered("TickMsg")
    /\ Switch
    /\ TickElapsed(elapsed, running, completed) <= duration + MaxOvershoot
    /\ elapsed' = TickElapsed(elapsed, running, completed)
    /\ ticks' = TicksAfter("TickMsg") + TickArmed(running, completed)
    /\ last' = <<"Tick", "done">>
    /\ UNCHANGED <<hasInit, running, completed, quitting, totalVolume,
                   currentAudio, duration, err, sinceSeek, stream, pos,
                   ctrlPaused, gain, silent, seqs, watchers, signalled, closes,
                   program, keys>>

\* case "ctrl+c", "q", "Q"
KeyQuit ==
    \E msg \in QuitKeys :
        /\ Delivered(msg)
        /\ Switch
        /\ Quit
        /\ last' = <<"Quit", "done">>
        /\ UNCHANGED <<hasInit, completed, totalVolume, currentAudio, duration,
                       elapsed, sinceSeek, pos, ctrlPaused, gain, silent, seqs,
                       watchers, signalled, ticks, keys>>

\* a key without a case, or a message that is neither a tick nor a key
UpdateOther ==
    \E msg \in OtherKeys \cup {"WindowSizeMsg"} :
        /\ Delivered(msg)
        /\ Switch
        /\ last' = <<"Other", "done">>
        /\ UNCHANGED <<hasInit, running, completed, quitting, totalVolume,
                       currentAudio, duration, elapsed, err, sinceSeek, stream,
                       pos, ctrlPaused, gain, silent, seqs, watchers, signalled,
                       ticks, closes, program, keys>>

\* -------------------------------------------------------- pause and resume
\* PlayKeyOp that restarts whatever completed is
PlayKeyOpAlwaysRestart(comp) == "Restart"

\* case "enter", " ": if p.completed { p.Restart() } else { p.StopOrResume() }
PlayKeyOp(comp) == IF comp THEN "Restart" ELSE "StopOrResume"

\* StopOrResume without the tests of p.completed
StopOrResumeIgnoringCompleted(h, run, comp, paused) ==
    IF run
    THEN IF ~h \/ ~run
         THEN [running |-> run, paused |-> paused]
         ELSE [running |-> FALSE, paused |-> TRUE]
    ELSE IF ~h \/ run
         THEN [running |-> run, paused |-> paused]
         ELSE [running |-> TRUE, paused |-> FALSE]

\* StopOrResume: Stop when running, else Resume; each returns early when not
\* initialised, when completed, or when already in the state asked for.
\* The result is running and ctrl.Paused as the call leaves them.
StopOrResume(h, run, comp, paused) ==
    IF run
    THEN IF ~h \/ comp \/ ~run
         THEN [running |-> run, paused |-> paused]
         ELSE [running |-> FALSE, paused |-> TRUE]
    ELSE IF ~h \/ comp \/ run
         THEN [running |-> run, paused |-> paused]
         ELSE [running |-> TRUE, paused |-> FALSE]

\* case "enter", " " when not completed
KeyStopOrResume ==
    \E msg \in PlayKeys :
        /\ Delivered(msg)
        /\ Switch
        /\ PlayKeyOp(completed) = "StopOrResume"
        /\ LET r == StopOrResume(hasInit, running, completed, ctrlPaused) IN
            /\ running' = r.running
            /\ ctrlPaused' = r.paused
        /\ last' = <<"StopOrResume", "done">>
        /\ UNCHANGED <<hasInit, completed, quitting, totalVolume, currentAudio,
                       duration, elapsed, err, sinceSeek, stream, pos, gain,
                       silent, seqs, watchers, signalled, ticks, closes, program,
                       keys>>

\* ---------------------------------------------------------------- Restart
\* p.stream.Seek(p): the decoders refuse a position outside 0 .. Len and
\* fail on a closed file; fault says that the read of the file fails
SeekFails(st, len, p, fault) == st # "open" \/ p < 0 \/ p > len \/ fault

\* Reset: the fields it sets
Reset ==
    [currentAudio |-> NoAudio, hasInit |-> FALSE, running |-> FALSE,
     completed |-> FALSE, quitting |-> FALSE, totalVolume |-> ResetVolume,
     duration |-> 0, elapsed |-> 0]

\* RestartFields without the assignment that puts the saved volume back
RestartFieldsLoseVolume(audio, vol, sil, len) ==
    [Reset EXCEPT !.elapsed = 0, !.duration = RoundSeconds(len),
                  !.currentAudio = audio] @@ [silent |-> sil]

\* the fields of the player after Reset and the assignments Restart makes
\* after it, from the file, volume and silent flag Restart saved
RestartFields(audio, vol, sil, len) ==
    [Reset EXCEPT !.elapsed = 0, !.duration = RoundSeconds(len),
                  !.currentAudio = audio, !.totalVolume = vol] @@ [silent |-> sil]

\* RestartTicks that hands the tick of Play to the runtime
RestartTicksKept(t, armed) == t + armed

\* the timers after Restart, t before it: p.Play() is called as a statement,
\* so the armed ticks it returns are dropped
RestartTicks(t, armed) == t

\* case "enter", " " when completed: Restart saves the file, the volume and
\* the silent flag, resets the player, puts them back, seeks to the start
\* (the result of Seek is dropped) and calls Play, dropping its tick
KeyRestart ==
    \E msg \in PlayKeys, fault \in BOOLEAN :
        /\ Delivered(msg)
        /\ Switch
        /\ PlayKeyOp(completed) = "Restart"
        /\ LET f == RestartFields(currentAudio, totalVolume, silent, currentAudio.len)
               r == Play(f.hasInit, f.running)
           IN
            /\ currentAudio' = f.currentAudio
            /\ totalVolume' = f.totalVolume
            /\ silent' = f.silent
            /\ quitting' = f.quitting
            /\ completed' = f.completed
            /\ elapsed' = f.elapsed
            /\ duration' = f.duration
            /\ hasInit' = r.hasInit
            /\ running' = r.running
            /\ seqs' = seqs + r.started
            /\ watchers' = watchers + r.started
            /\ ticks' = RestartTicks(ticks, r.tick)
        /\ pos' = IF SeekFails(stream, currentAudio.len, 0, fault) THEN pos ELSE 0
        /\ last' = <<"Restart", "done">>
        /\ UNCHANGED <<err, sinceSeek, stream, ctrlPaused, gain, signalled,
                       closes, program, keys>>

\* ----------------------------------------------------------------- volume
\* totalVolume after DecrementVolume
DecrementTotal(v) == IF v - VolumeStep < 0 THEN 0 ELSE v - VolumeStep

\* volume.Volume after DecrementVolume, v the new totalVolume
DecrementGain(g, v) == IF v > 0 THEN g - 1 ELSE g

\* IncrementTotal without the clamp at 100
IncrementTotalUnclamped(v) == v + VolumeStep

\* totalVolume after IncrementVolume
IncrementTotal(v) == IF v + VolumeStep > VolumeMax THEN VolumeMax ELSE v + VolumeStep

\* volume.Volume after IncrementVolume, v the new totalVolume
IncrementGain(g, v) == IF v < VolumeMax THEN g + 1 ELSE g

\* VolumeSilent without the branch that clears the flag
VolumeSilentOnly(v) == TRUE

\* volume.Silent after a change to totalVolume v
VolumeSilent(v) == IF v = 0 THEN TRUE ELSE FALSE

\* case "-", "down", "j"
KeyDecrementVolume ==
    \E msg \in DownKeys :
        /\ Delivered(msg)
        /\ Switch
        /\ totalVolume' = DecrementTotal(totalVolume)
        /\ gain' = DecrementGain(gain, totalVolume')
        /\ gain' >= -MaxGain
        /\ silent' = VolumeSilent(totalVolume')
        /\ last' = <<"DecrementVolume", "done">>
        /\ UNCHANGED <<hasInit, running, completed, quitting, currentAudio,
                       duration, elapsed, err, sinceSeek, stream, pos, ctrlPaused,
                       seqs, watchers, signalled, ticks, closes, program, keys>>

\* case "+", "up", "k"
KeyIncrementVolume ==
    \E msg \in UpKeys :
        /\ Delivered(msg)
        /\ Switch
        /\ totalVolume' = IncrementTotal(totalVolume)
        /\ gain' = IncrementGain(gain, totalVolume')
        /\ gain' <= MaxGain
        /\ silent' = VolumeSilent(totalVolume')
        /\ last' = <<"IncrementVolume", "done">>
        /\ UNCHANGED <<hasInit, running, completed, quitting, currentAudio,
                       duration, elapsed, err, sinceSeek, stream, pos, ctrlPaused,
                       seqs, watchers, signalled, ticks, closes, program, keys>>

\* ToggleVolume that only ever mutes
ToggleVolumeMuteOnly(sil) == TRUE

\* ToggleVolume: UnmuteVolume when silent, else MuteVolume
ToggleVolume(sil) == IF sil THEN FALSE ELSE TRUE

\* case "m", "M"
KeyToggleVolume ==
    \E msg \in MuteKeys :
        /\ Delivered(msg)
        /\ Switch
        /\ silent' = ToggleVolume(silent)
        /\ last' = <<"ToggleVolume", "done">>
        /\ UNCHANGED <<hasInit, running, completed, quitting, totalVolume,
                       currentAudio, duration, elapsed, err, sinceSeek, stream,
                       pos, ctrlPaused, gain, seqs, watchers, signalled, ticks,
                       closes, program, keys>>

\* ------------------------------------------------------------------- seek
\* InCooldown without the cooldown
InCooldownNever(since) == FALSE

\* time.Since(p.lastSeekTime) < SeekCooldown
InCooldown(since) == since < SeekCooldown

\* skipDuration: 5, or 0 when p.elapsed+skipDuration >= p.duration
SeekSkip(e, d) == IF GeDuration(e + SkipSeconds, d) THEN 0 ELSE SkipSeconds

\* p.format.SampleRate.N(time.Second * skipDuration)
SeekOffset(skip) == SampleRate * skip

\* Rewind: newPos
RewindPos(p, skip) == Max(p - SeekOffset(skip), 0)

\* RewindElapsed without the max with 0
RewindElapsedUnclamped(e, skip) == e - skip

\* Rewind: p.elapsed
RewindElapsed(e, skip) == Max(e - skip, 0)

\* Forward: newPos
ForwardPos(p, skip, len) == Min(p + SeekOffset(skip), len - 1)

\* Forward: p.elapsed
ForwardElapsed(e, skip, d) == MinDuration(e + skip, d)

\* the outcomes of reading the stream during a seek: "nil" for none,
\* "err" when p.stream.Err() is set, "seek" when the reposition fails
Faults == {"nil", "err", "seek"}

\* the part of Rewind and Forward after the new position np and the new
\* elapsed ne are computed: elapsed is stored, then the stream is moved
SeekTo(name, np, ne, fault) ==
    /\ ne <= duration + MaxOvershoot
    /\ elapsed' = ne
    /\ IF SeekFails(stream, currentAudio.len, np, fault = "seek")
       THEN /\ err' = "seek"
            /\ last' = <<name, "seek failed">>
            /\ UNCHANGED <<pos, sinceSeek>>
       ELSE /\ pos' = np
            /\ sinceSeek' = 0
            /\ last' = <<name, "done">>
            /\ UNCHANGED err

\* case "left", "h"
KeyRewind ==
    \E msg \in LeftKeys, fault \in Faults :
        /\ Delivered(msg)
        /\ Switch
        /\ IF InCooldown(sinceSeek)
           THEN /\ last' = <<"Rewind", "cooldown">>
                /\ UNCHANGED <<elapsed, err, pos, sinceSeek>>
           ELSE IF fault = "err"
           THEN /\ err' = "stream"
                /\ last' = <<"Rewind", "stream error">>
                /\ UNCHANGED <<elapsed, pos, sinceSeek>>
           ELSE LET skip == SeekSkip(elapsed, duration) IN
                SeekTo("Rewind", RewindPos(pos, skip), RewindElapsed(elapsed, skip), fault)
        /\ UNCHANGED <<hasInit, running, completed, quitting, totalVolume,
                       currentAudio, duration, stream, ctrlPaused, gain, silent,
                       seqs, watchers, signalled, ticks, closes, program, keys>>

\* case "right", "l"
KeyForward ==
    \E msg \in RightKeys, fault \in Faults :
        /\ Delivered(msg)
        /\ Switch
        /\ IF InCooldown(sinceSeek)
           THEN /\ last' = <<"Forward", "cooldown">>
                /\ UNCHANGED <<elapsed, err, pos, sinceSeek>>
           ELSE IF fault = "err"
           THEN /\ err' = "stream"
                /\ last' = <<"Forward", "stream error">>
                /\ UNCHANGED <<elapsed, pos, sinceSeek>>
           ELSE LET skip == SeekSkip(elapsed, duration) IN
                SeekTo("Forward", ForwardPos(pos, skip, currentAudio.len),
                       ForwardElapsed(elapsed, skip, duration), fault)
        /\ UNCHANGED <<hasInit, running, completed, quitting, totalVolume,
                       currentAudio, duration, stream, ctrlPaused, gain, silent,
                       seqs, watchers, signalled, ticks, closes, program, keys>>

\* ------------------------------------------------- speaker, watcher, clock
\* the speaker streams one more sample of a sequence: beep.Ctrl passes the
\* decoder's samples on unless it is paused
SpeakerStream ==
    /\ seqs > 0
    /\ ~ctrlPaused
    /\ stream = "open" /\ pos < currentAudio.len
    /\ pos' = pos + 1
    /\ UNCHANGED <<afterQuit, last>>
    /\ UNCHANGED <<hasInit, running, completed, quitting, totalVolume,
                   currentAudio, duration, elapsed, err, sinceSeek, stream,
                   ctrlPaused, gain, silent, seqs, watchers, signalled, ticks,
                   closes, program, keys>>

\* the decoder has no more samples (its end, or its file was closed): beep.Seq
\* moves on to the callback, whose send on done is taken by the goroutine
\* waiting for it
SpeakerDone ==
    /\ seqs > 0
    /\ ~ctrlPaused
    /\ stream = "closed" \/ pos >= currentAudio.len
    /\ watchers > 0
    /\ seqs' = seqs - 1
    /\ watchers' = watchers - 1
    /\ signalled' = signalled + 1
    /\ UNCHANGED <<afterQuit, last>>
    /\ UNCHANGED <<hasInit, running, completed, quitting, totalVolume,
                   currentAudio, duration, elapsed, err, sinceSeek, stream, pos,
                   ctrlPaused, gain, silent, ticks, closes, program, keys>>

\* WatcherWrite without the assignment of p.completed
WatcherWriteNothing(run, comp) == [running |-> run, completed |-> comp]

\* the fields the goroutine of Play writes after <-done
WatcherWrite(run, comp) == [running |-> run, completed |-> TRUE]

\* go func() { <-done; p.completed = true }()
Watcher ==
    /\ signalled > 0
    /\ signalled' = signalled - 1
    /\ running' = WatcherWrite(running, completed).running
    /\ completed' = WatcherWrite(running, completed).completed
    /\ UNCHANGED <<afterQuit, last>>
    /\ UNCHANGED <<hasInit, quitting, totalVolume, currentAudio, duration,
                   elapsed, err, sinceSeek, stream, pos, ctrlPaused, gain, silent,
                   seqs, watchers, ticks, closes, program, keys>>

\* time passes
Clock ==
    /\ sinceSeek < SeekCooldown
    /\ sinceSeek' = Min(sinceSeek + ClockStep, SeekCooldown)
    /\ UNCHANGED <<afterQuit, last>>
    /\ UNCHANGED <<hasInit, running, completed, quitting, totalVolume,
                   currentAudio, duration, elapsed, err, stream, pos, ctrlPaused,
                   gain, silent, seqs, watchers, signalled, ticks, closes,
                   program, keys>>

\* ---------------------------------------------------------------- p.mu
\* the runtime can deliver a message to Update
Dispatching ==
    \/ program = "running"
    \/ program = "quit pending" /\ afterQuit < MaxAfterQuit

\* the locks held at each access of p.completed and p.running: "mu" is p.mu,
\* "speaker" the lock of speaker.Lock().  The goroutine of Play takes no
\* lock; the TickMsg case tests both fields before p.mu.Lock(); Stop and
\* Resume write p.running before speaker.Lock(); Restart (through Reset and
\* Play) and Close take no lock
LocksHeld ==
    [Watcher |-> {}, TickGuard |-> {}, Stop |-> {}, Resume |-> {},
     Restart |-> {}, Close |-> {}]

\* the accesses of p.completed and p.running that Update can make on the
\* next message
ForegroundSites ==
    IF ~Dispatching THEN {}
    ELSE IF err # "nil" THEN {"Close"}
    ELSE IF ~hasInit /\ currentAudio # NoAudio THEN {}
    ELSE {s \in {"TickGuard"} : ticks > 0}
         \cup {s \in {"Close"} : QuitKeys \cap keys # {}}
         \cup {s \in {"Stop"} : PlayKeys \cap keys # {} /\ ~completed /\ running}
         \cup {s \in {"Resume"} : PlayKeys \cap keys # {} /\ ~completed /\ ~running}
         \cup {s \in {"Restart"} : PlayKeys \cap keys # {} /\ completed}

\* ElapsedLocks with the TickMsg case counting outside p.mu
ElapsedLocksTickUnlocked ==
    [TickIncrement |-> {}, Rewind |-> {"mu"}, Forward |-> {"mu"}]

\* the locks held at each access of p.elapsed by the handlers of Update: the
\* TickMsg case wraps p.elapsed++ in p.mu.Lock() / Unlock(); Rewind and
\* Forward take p.mu on entry and release it on return, around the reads of
\* lastSeekTime and elapsed, the write of elapsed, the Seek and the write of
\* lastSeekTime
ElapsedLocks ==
    [TickIncrement |-> {"mu"}, Rewind |-> {"mu"}, Forward |-> {"mu"}]

\* the accesses of p.elapsed that Update can make on the next message
ElapsedSites ==
    IF ~Dispatching \/ ~Switch THEN {}
    ELSE {s \in {"TickIncrement"} : ticks > 0 /\ running /\ ~completed}
         \cup {s \in {"Rewind"} : LeftKeys \cap keys # {}}
         \cup {s \in {"Forward"} : RightKeys \cap keys # {}}

Next ==
    \/ PlayerInit
    \/ UpdateError
    \/ UpdatePlay
    \/ UpdateTick
    \/ UpdateOther
    \/ KeyQuit
    \/ KeyStopOrResume
    \/ KeyRestart
    \/ KeyDecrementVolume
    \/ KeyIncrementVolume
    \/ KeyToggleVolume
    \/ KeyRewind
    \/ KeyForward
    \/ SpeakerStream
    \/ SpeakerDone
    \/ Watcher
    \/ Clock

Spec == Init /\ [][Next]_vars

\* the Go scheduler runs a goroutine that is ready: the goroutine of Play,
\* once it has received from done, reaches its assignment
FairSpec == Spec /\ WF_vars(Watcher)

\* ------------------------------------------------------------ NewAudioFile
\* paths are sequences of characters: a letter, the dot and the separator
PathChars == {"a", ".", "/"}
\* the longest path handed to NewAudioFile
MaxPath == 5
Paths == UNION {[1 .. n -> PathChars] : n \in 0 .. MaxPath}

\* the path without its trailing separators
RECURSIVE StripSlashes(_)
StripSlashes(p) ==
    IF p # <<>> /\ p[Len(p)] = "/" THEN StripSlashes(SubSeq(p, 1, Len(p) - 1)) ELSE p

\* the index of the last separator of p, 0 when it has none
LastSlash(p) ==
    LET is == {i \in 1 .. Len(p) : p[i] = "/"} IN
    IF is = {} THEN 0 ELSE CHOOSE i \in is : \A j \in is : j <= i

\* filepath.Base: "." for the empty path, "/" for a path of separators only,
\* else the last element of the path without its trailing separators
Base(path) ==
    IF path = <<>> THEN <<".">>
    ELSE LET s == StripSlashes(path)
             e == SubSeq(s, LastSlash(s) + 1, Len(s))
         IN IF e = <<>> THEN <<"/">> ELSE e

\* filepath.Ext: the suffix that starts at the last dot of the last element
\* of the path, empty when that element has no dot
Ext(path) ==
    LET is == {i \in LastSlash(path) + 1 .. Len(path) : path[i] = "."} IN
    IF is = {} THEN <<>>
    ELSE SubSeq(path, CHOOSE i \in is : \A j \in is : j <= i, Len(path))

\* strings.Replace(str, old, "", 1): str without the first occurrence of
\* old; str itself when old is empty or does not occur
ReplaceFirst(str, old) ==
    LET is == {i \in 1 .. Len(str) - Len(old) + 1 :
                    SubSeq(str, i, i + Len(old) - 1) = old}
    IN IF old = <<>> \/ is = {} THEN str
       ELSE LET i == CHOOSE k \in is : \A j \in is : k <= j
            IN SubSeq(str, 1, i - 1) \o SubSeq(str, i + Len(old), Len(str))

\* NewAudioFile: the name, the extension and the path of the AudioFile
NewAudioFile(path) ==
    [name |-> ReplaceFirst(Base(path), Ext(Base(path))),
     ext |-> Ext(Base(path)),
     path |-> path]

\* the player as New(DefaultVolume) builds it, before SetAudioFile
AudioFileInit ==
    /\ totalVolume = New(DefaultVolume)
    /\ currentAudio = NoAudio
    /\ keys = {}
    /\ hasInit = FALSE /\ running = FALSE /\ completed = FALSE
    /\ quitting = FALSE
    /\ duration = 0 /\ elapsed = 0
    /\ err = "nil"
    /\ sinceSeek = SeekCooldown
    /\ stream = "nil" /\ pos = 0
    /\ ctrlPaused = FALSE /\ gain = 0 /\ silent = FALSE
    /\ seqs = 0 /\ watchers = 0 /\ signalled = 0 /\ ticks = 0 /\ closes = 0
    /\ program = "new"
    /\ afterQuit = 0
    /\ last = <<"New", "done">>

\* main: af := player.NewAudioFile(*play); tui.Player().SetAudioFile(af)
SetAudioFile ==
    \E path \in Paths :
        /\ program = "new"
        /\ currentAudio = NoAudio
        /\ currentAudio' = NewAudioFile(path)
        /\ last' = <<"SetAudioFile", "done">>
        /\ UNCHANGED <<hasInit, running, completed, quitting, totalVolume,
                       duration, elapsed, err, sinceSeek, stream, pos,
                       ctrlPaused, gain, silent, seqs, watchers, signalled,
                       ticks, closes, program, keys, afterQuit>>

AudioFileNext == SetAudioFile

AudioFileSpec == AudioFileInit /\ [][AudioFileNext]_vars

\* a call of Update, on any message
UpdateStep ==
    \/ UpdateError \/ UpdatePlay \/ UpdateTick \/ UpdateOther \/ KeyQuit
    \/ KeyStopOrResume \/ KeyRestart \/ KeyDecrementVolume
    \/ KeyIncrementVolume \/ KeyToggleVolume \/ KeyRewind \/ KeyForward

\* ================================================================== claims
\* the fields of the player, the speaker and the runtime: every variable but
\* the record of the latest operation and the count of late messages
PlayerFields ==
    <<hasInit, running, completed, quitting, totalVolume, currentAudio,
      duration, elapsed, err, sinceSeek, stream, pos, ctrlPaused, gain, silent,
      seqs, watchers, signalled, ticks, closes, program>>

\* C1: in every state of a loaded session 0 <= elapsed <= duration, both in
\* seconds.
C1_ElapsedWithinDuration ==
    stream # "nil" => 0 <= elapsed /\ elapsed <= duration

\* C2: a TickMsg handled while running and not completed adds exactly one to
\* elapsed; a TickMsg handled while paused or completed leaves elapsed as it
\* is.
C2_TickCountsOnlyWhilePlaying ==
    [][UpdateTick =>
        elapsed' = (IF running /\ ~completed THEN elapsed + 1 ELSE elapsed)]_vars

\* a tick was counted while playing: elapsed is 3 after the third one
C2_Witness ==
    /\ last = <<"Tick", "done">>
    /\ running /\ ~completed
    /\ elapsed = 3

\* C3: an accepted Forward sets elapsed to min(elapsed + 5, duration): a skip
\* that would pass the end of the stream lands on duration.
C3_ForwardLandsOnDuration ==
    [][KeyForward /\ last' = <<"Forward", "done">> =>
        elapsed' = Min(elapsed + SkipSeconds, duration)]_vars

\* C4: a Rewind or Forward less than SeekCooldown after the last accepted
\* seek changes no field; lastSeekTime is set only by a seek outside the
\* cooldown whose reposition succeeds.
C4_SeekInCooldownIsNoOp ==
    [][/\ (KeyRewind \/ KeyForward) /\ sinceSeek < SeekCooldown
            => UNCHANGED PlayerFields
       /\ sinceSeek' < sinceSeek
            => /\ KeyRewind \/ KeyForward
               /\ sinceSeek >= SeekCooldown
               /\ err' = "nil"
               /\ last'[2] = "done"]_vars

\* a Forward was turned away 100 ms after an accepted seek
C4_Witness ==
    /\ last = <<"Forward", "cooldown">>
    /\ sinceSeek = ClockStep
    /\ elapsed = SkipSeconds

\* C5: right after Restart elapsed = 0, running, not completed, initialised,
\* the same file attached, and totalVolume and the silent flag as before.
C5_RestartState ==
    [][KeyRestart =>
        /\ elapsed' = 0
        /\ running'
        /\ ~completed'
        /\ hasInit'
        /\ currentAudio' = currentAudio
        /\ totalVolume' = totalVolume
        /\ silent' = silent]_vars

\* a Restart kept a volume other than the one Reset stores, and the mute
C5_Witness ==
    /\ last = <<"Restart", "done">>
    /\ totalVolume = 25
    /\ silent
    /\ elapsed = 0 /\ running /\ ~completed /\ hasInit

\* C6: totalVolume stays in 0 .. 100 from every initial volume; an increment
\* or decrement moves it by 5, or onto the bound when 5 would pass it;
\* ToggleVolume and Restart leave it alone.
C6_VolumeInRange ==
    /\ [](totalVolume \in 0 .. 100)
    /\ [][/\ KeyIncrementVolume => totalVolume' = Min(totalVolume + 5, 100)
          /\ KeyDecrementVolume => totalVolume' = Max(totalVolume - 5, 0)
          /\ KeyToggleVolume \/ KeyRestart => totalVolume' = totalVolume]_vars

\* an increment ended on the upper bound
C6_Witness ==
    /\ last = <<"IncrementVolume", "done">>
    /\ totalVolume = 100

\* C7: after IncrementVolume or DecrementVolume the silent flag equals
\* (totalVolume = 0).
C7_MutedIffZeroAfterVolumeChange ==
    last[1] \in {"IncrementVolume", "DecrementVolume"} => silent = (totalVolume = 0)

\* five decrements from 25: the volume is 0 and the player is muted
C7_Witness ==
    /\ last = <<"DecrementVolume", "done">>
    /\ totalVolume = 0
    /\ gain = -4
    /\ silent

\* C8: ToggleVolume negates the silent flag, so that two calls restore it,
\* and changes none of totalVolume, gain, running, completed, elapsed.
C8_ToggleMuteSelfInverse ==
    [][KeyToggleVolume =>
        /\ silent' = ~silent
        /\ UNCHANGED <<totalVolume, gain, running, completed, elapsed>>]_vars

\* a toggle unmuted a player that was muted at a volume above 0
C8_Witness ==
    /\ last = <<"ToggleVolume", "done">>
    /\ ~silent
    /\ totalVolume = 25
    /\ hasInit

\* C9: when LoadAudio fails the error is set, no other field has changed
\* from its value at construction, and no later message makes the player
\* initialised, starts a watcher or arms a tick.
C9_FailedLoadNeverInitialises ==
    currentAudio \in BadFiles /\ program # "new" =>
        /\ err # "nil"
        /\ ~hasInit /\ ~running /\ ~completed
        /\ seqs = 0 /\ watchers = 0 /\ signalled = 0 /\ ticks = 0
        /\ stream = "nil" /\ pos = 0 /\ duration = 0 /\ elapsed = 0
        /\ gain = 0 /\ ~silent /\ ~ctrlPaused
        /\ sinceSeek = SeekCooldown

\* a message reached Update after a file with an unsupported extension
\* failed to load
C9_Witness ==
    /\ currentAudio.ext = ".ogg"
    /\ err = "ext"
    /\ last = <<"Quit", "done">>
    /\ afterQuit = 1
    /\ ~hasInit

\* C10: the watcher sets completed and clears running, so no state has
\* completed and running together.
C10_NeverCompletedAndRunning ==
    ~(completed /\ running)

\* C11: whenever the goroutine of Play is about to write completed while
\* Update can read or write completed or running, both accesses are made
\* holding p.mu.
C11_AccessesHoldMutex ==
    signalled > 0 =>
        \A s \in ForegroundSites :
            "mu" \in LocksHeld.Watcher /\ "mu" \in LocksHeld[s]

\* C12: p.stream.Close() is called at most once on the stream that LoadAudio
\* opened, along every sequence of messages.
C12_StreamClosedOnce ==
    closes <= 1

\* C13: an error, once set, is never cleared, and every call of Update with
\* an error set returns tea.Quit and changes none of totalVolume, the silent
\* flag, elapsed, the stream position and completed, and arms no tick.
C13_ErrorIsTerminal ==
    [][err # "nil" =>
        /\ err' # "nil"
        /\ UpdateStep =>
            /\ program' = "quit pending"
            /\ quitting'
            /\ UNCHANGED <<totalVolume, silent, elapsed, pos, completed>>
            /\ ticks' <= ticks]_vars

\* a message reached Update after a seek had failed
C13_Witness ==
    /\ err = "seek"
    /\ last = <<"Quit", "done">>
    /\ program = "quit pending"
    /\ hasInit

\* C14: once quitting is true, a call of Update leaves running false and
\* changes none of totalVolume, the silent flag, elapsed, completed and
\* ctrl.Paused.
C14_QuittingFreezesPlayback ==
    [][quitting /\ UpdateStep =>
        /\ ~running'
        /\ UNCHANGED <<totalVolume, silent, elapsed, completed, ctrlPaused>>]_vars

\* C15: a quit key delivered to Update in any state, the first message
\* included, sets quitting and returns tea.Quit.
C15_QuitKeyQuits ==
    [][(\E msg \in QuitKeys : UpdateErrorOn(msg) \/ UpdatePlayOn(msg)) \/ KeyQuit =>
        quitting' /\ program' = "quit pending"]_vars

C17_PlayOnce ==
    /\ [](/\ Play(TRUE, running)
                = [hasInit |-> TRUE, running |-> running, started |-> 0, tick |-> 0]
          /\ watchers + signalled <= 1)
    /\ [][/\ UpdatePlay \/ KeyRestart
                => hasInit' /\ running' /\ watchers' = watchers + 1
          /\ watchers' > watchers
                => (UpdatePlay \/ KeyRestart) /\ watchers' = watchers + 1]_vars

\* the Play of a Restart started the second watcher after the first one
\* had finished
C17_Witness ==
    /\ last = <<"Restart", "done">>
    /\ hasInit /\ running /\ ~completed
    /\ watchers = 1 /\ signalled = 0

\* C18: a TickMsg handled by the TickMsg case returns exactly one new tick,
\* whether the player is running, paused or completed; so an initialised
\* player without an error always has one tick armed for the runtime to
\* deliver.
C18_TickRearmed ==
    /\ [](hasInit /\ err = "nil" => ticks = 1)
    /\ [][UpdateTick => ticks' = (ticks - 1) + 1]_vars

\* a tick was handled while the player was paused, and the next one is armed
C18_Witness ==
    /\ last = <<"Tick", "done">>
    /\ hasInit /\ err = "nil"
    /\ ~running /\ ctrlPaused
    /\ ticks = 1

\* C19: the gain follows the volume: an IncrementVolume or DecrementVolume
\* from a volume that is a multiple of 5 moves the gain by one step of
\* VolumeShift for every 5 units it moves totalVolume, so that equal volumes
\* always have equal gains.
C19_GainFollowsVolume ==
    [][(KeyIncrementVolume \/ KeyDecrementVolume) /\ totalVolume % VolumeStep = 0 =>
        VolumeStep * (gain' - gain) = totalVolume' - totalVolume]_vars

\* C20: in every state of a loaded session with totalVolume = 0 the silent
\* flag of the gain stage is set.
C20_SilentAtZero ==
    stream # "nil" /\ totalVolume = 0 => silent

C22_CompletedOncePerSession ==
    /\ (signalled > 0) ~> completed
    /\ [][~completed /\ completed' =>
            /\ Watcher
            /\ watchers' + signalled' = 0]_vars

\* the stream of the ten-second file ended and the goroutine marked the
\* player completed
C22_Witness ==
    /\ completed
    /\ currentAudio.len = 10 * SampleRate /\ pos = currentAudio.len
    /\ watchers = 0 /\ signalled = 0 /\ seqs = 0
    /\ last = <<"Tick", "done">>

\* C23: an accepted Rewind from an elapsed within 0 .. duration sets elapsed
\* to max(elapsed - 5, 0): onto 0 when 5 would cross it, and back by exactly
\* 5 otherwise, also within the last 5 seconds and after completion.
C23_RewindLandsOnZero ==
    [][KeyRewind /\ last' = <<"Rewind", "done">> /\ 0 <= elapsed /\ elapsed <= duration =>
        elapsed' = Max(elapsed - SkipSeconds, 0)]_vars

\* a Rewind from elapsed 8 of the ten-second file, within its last 5
\* seconds, went back to 3
C23_Witness ==
    /\ last = <<"Rewind", "done">>
    /\ duration = 10
    /\ elapsed = 3

\* C24: when the reposition of an accepted Rewind or Forward fails, the
\* error is set and elapsed and lastSeekTime are as before the call.
C24_FailedSeekChangesNothing ==
    [][(KeyRewind \/ KeyForward) /\ last'[2] = "seek failed" =>
        /\ err' # "nil"
        /\ UNCHANGED <<elapsed, sinceSeek>>]_vars

\* C25: a successful seek leaves the stream position within 0 .. Len - 1 and
\* moves elapsed by as many seconds as it moves the position.
C25_ElapsedMatchesSampleMove ==
    [][(KeyRewind \/ KeyForward) /\ last'[2] = "done" =>
        /\ pos' \in 0 .. currentAudio.len - 1
        /\ pos' - pos = SampleRate * (elapsed' - elapsed)]_vars

\* C26: Enter or Space handled while completed runs Restart, which leaves
\* the player running from elapsed 0 and not completed; handled while not
\* completed it runs the pause / resume toggle, which restarts nothing.
C26_RestartOnlyWhenCompleted ==
    [][/\ KeyRestart =>
            completed /\ last' = <<"Restart", "done">>
            /\ elapsed' = 0 /\ running' /\ ~completed'
       /\ KeyStopOrResume =>
            ~completed /\ last' = <<"StopOrResume", "done">>
            /\ UNCHANGED <<elapsed, completed, hasInit, seqs, watchers, duration>>
       /\ last'[1] = "Restart" /\ last' # last => completed]_vars

\* the ten-second file was played to its end and restarted with Enter
C26_Witness ==
    /\ last = <<"Restart", "done">>
    /\ duration = 10 /\ elapsed = 0 /\ pos = 0
    /\ running /\ ~completed
    /\ seqs = 1

\* C27: the AudioFile that NewAudioFile returns keeps the path, its
\* extension is the suffix of the base name from its last dot, and its name
\* followed by its extension is the base name.
C27_NameThenExtensionIsBase ==
    last = <<"SetAudioFile", "done">> =>
        /\ currentAudio.ext = Ext(Base(currentAudio.path))
        /\ currentAudio.name \o currentAudio.ext = Base(currentAudio.path)

\* C28: in every state of an initialised player that is not quitting,
\* running implies that ctrl.Paused is off.
C28_RunningMeansNotPaused ==
    hasInit /\ ~quitting => (running => ~ctrlPaused)

\* C29: at most one tick timer is pending at any time: the Play of the
\* first message arms one, every TickMsg handled arms its successor, and
\* Restart arms none.
C29_OneTickPending ==
    /\ [](ticks <= 1)
    /\ [][/\ UpdatePlay => ticks = 0 /\ ticks' = 1
          /\ KeyRestart => ticks' = ticks
          /\ ticks' > ticks => UpdatePlay]_vars

\* the player was restarted after a completion and has the one tick of the
\* first Play's chain pending, none added by the Play of Restart
C29_Witness ==
    /\ last = <<"Restart", "done">>
    /\ ticks = 1
    /\ elapsed = 0
    /\ program = "running"
====
